---- MODULE Spec2Model ----
(***************************************************************************)
(* A model of src/music-player.py: the playlist store (PlaylistManager)    *)
(* with its persisted JSON document, and the playback engine (AudioPlayer) *)
(* on top of the pygame mixer, and the window's handlers that drive both   *)
(* (MusicPlayerWindow).                                                    *)
(*                                                                         *)
(* A Python dict is an insertion-ordered mapping: it is modelled as a      *)
(* sequence of records [name, songs] with pairwise distinct names.  The   *)
(* JSON text of the document is modelled as what a parser sees of it: the  *)
(* sequence of the members <<name, songs>> of its top-level object, in the *)
(* order of the text; a name may occur in several members.  Documents      *)
(* whose top-level value is not an object of lists of strings are outside  *)
(* the model.  The data directory (line 111) is taken to be creatable.     *)
(***************************************************************************)
EXTENDS Integers, Sequences, FiniteSets, TLC

VARIABLES
    file,          \* the backing document playlists.json
    playlists,     \* PlaylistManager.playlists
    running,       \* a process (and its PlaylistManager) is alive
    faults,        \* write failures and crashes injected so far
    current_song,  \* AudioPlayer.current_song
    is_playing,    \* AudioPlayer.is_playing
    is_paused,     \* AudioPlayer.is_paused
    position,      \* AudioPlayer.position
    duration,      \* AudioPlayer.duration
    mixer,         \* pygame.mixer.music: [music, busy, paused, offset, volume]
    current_playlist,    \* MusicPlayerWindow.current_playlist
    current_song_index,  \* MusicPlayerWindow.current_song_index
    current_songs,       \* MusicPlayerWindow.current_songs
    last           \* the last call and its result: [op, name, path, ret, wr]

storeVars == <<file, playlists, running, faults>>
engineVars == <<current_song, is_playing, is_paused, position, duration, mixer>>
ctrlVars == <<current_playlist, current_song_index, current_songs>>
vars == <<file, playlists, running, faults, current_song, is_playing,
          is_paused, position, duration, mixer, current_playlist,
          current_song_index, current_songs, last>>

----------------------------------------------------------------------------
(* Bounds *)

\* paths in one list of that document
MaxDocSongs == 2
\* failed or interrupted writes in one behaviour
MaxFaults == 1

PlaylistNames == {"Default", "Road Trip"}
Songs == {"/music/a.mp3", "/music/b.mp3"}
None == "None"

\* resolution of the volume scale: VolumeSteps stands for 1.0
VolumeSteps == 2

\* pygame.mixer.init: nothing loaded, full volume
MixerInit ==
    [music |-> None, busy |-> FALSE, paused |-> FALSE, offset |-> 0,
     volume |-> VolumeSteps]

----------------------------------------------------------------------------
(* Python dict and list operations *)

Keys(pl) == {pl[i].name : i \in DOMAIN pl}

Has(pl, name) == name \in Keys(pl)

IndexOf(pl, name) == CHOOSE i \in DOMAIN pl : pl[i].name = name

\* d.get(name, [])
DictGet(pl, name) == IF Has(pl, name) THEN pl[IndexOf(pl, name)].songs ELSE <<>>

\* d[name] = v : a new key goes last, an old key keeps its place
DictSet(pl, name, v) ==
    IF Has(pl, name)
    THEN [pl EXCEPT ![IndexOf(pl, name)].songs = v]
    ELSE Append(pl, [name |-> name, songs |-> v])

\* del d[name]
DictDel(pl, name) == SelectSeq(pl, LAMBDA e : e.name # name)

\* x in list
InList(s, x) == \E i \in DOMAIN s : s[i] = x

\* list.remove(x): drops the first occurrence
ListRemove(s, x) ==
    LET k == CHOOSE i \in DOMAIN s : s[i] = x /\ \A j \in 1..(i - 1) : s[j] # x
    IN  [i \in 1..(Len(s) - 1) |-> IF i < k THEN s[i] ELSE s[i + 1]]

\* the sequences over S of length at most n
RECURSIVE SeqsUpTo(_, _)
SeqsUpTo(S, n) ==
    IF n = 0 THEN {<<>>}
    ELSE LET shorter == SeqsUpTo(S, n - 1)
         IN  shorter \cup {Append(s, x) : s \in shorter, x \in S}

DefaultPlaylists == << [name |-> "Default", songs |-> <<>>] >>

----------------------------------------------------------------------------
(* The persisted document *)

\* json.load of an object: later members overwrite earlier ones of the same name
RECURSIVE JsonLoadFrom(_, _)
JsonLoadFrom(members, acc) ==
    IF members = <<>> THEN acc
    ELSE JsonLoadFrom(Tail(members),
                      DictSet(acc, Head(members)[1], Head(members)[2]))

JsonLoad(members) == JsonLoadFrom(members, <<>>)

\* json.dump of a dict: one member per item, in the dict's order
JsonDump(pl) == [i \in DOMAIN pl |-> <<pl[i].name, pl[i].songs>>]

Absent == [kind |-> "absent", members |-> <<>>]
Corrupt == [kind |-> "corrupt", members |-> <<>>]
Document(members) == [kind |-> "doc", members |-> members]

\* the fallback forgets the "Default" playlist
load_playlists_EmptyFallback(f) ==
    IF f.kind = "doc" THEN JsonLoad(f.members) ELSE <<>>

load_playlists(f) ==
    IF f.kind = "doc" THEN JsonLoad(f.members) ELSE DefaultPlaylists

\* What the write does to the document:
\*   ok      the whole text is written
\*   denied  open(.., 'w') raises: the document is untouched
\*   partial open truncated the file and the write raised before the end
\*   crash   the process died between the truncation and the end of the write
\* A strict prefix of the text of a JSON object does not parse.
WriteOutcomes == {"ok", "denied", "partial", "crash"}

save_playlists(pl, f, w) ==
    CASE w = "ok" -> Document(JsonDump(pl))
      [] w = "denied" -> f
      [] OTHER -> Corrupt

Persist(pl, w) ==
    /\ w # "ok" => faults < MaxFaults
    /\ file' = save_playlists(pl, file, w)
    /\ running' = (w # "crash")
    /\ faults' = IF w = "ok" THEN faults ELSE faults + 1

Returned(w, r) == IF w = "crash" THEN None ELSE r

Call(op, name, path, ret, wr) ==
    [op |-> op, name |-> name, path |-> path, ret |-> ret, wr |-> wr]

----------------------------------------------------------------------------
(* PlaylistManager *)

\* the guard forgets that "Default" is protected
CanDelete_Unprotected(pl, name) == Has(pl, name)

\* line 143
CanDelete(pl, name) == Has(pl, name) /\ name # "Default"

\* the guard forgets to look for the path in the list
ShouldAppend_NoDedup(pl, name, path) == Has(pl, name)

\* lines 151-152
ShouldAppend(pl, name, path) == Has(pl, name) /\ ~InList(DictGet(pl, name), path)

\* lines 158-159
ShouldRemove(pl, name, path) == Has(pl, name) /\ InList(DictGet(pl, name), path)

create_playlist(name) ==
    /\ running
    /\ \/ /\ ~Has(playlists, name)
          /\ playlists' = DictSet(playlists, name, <<>>)
          /\ \E w \in WriteOutcomes :
                /\ Persist(playlists', w)
                /\ last' = Call("create", name, None, Returned(w, "True"), w)
       \/ /\ Has(playlists, name)
          /\ last' = Call("create", name, None, "False", "none")
          /\ UNCHANGED storeVars
    /\ UNCHANGED engineVars
    /\ UNCHANGED ctrlVars

delete_playlist(name) ==
    /\ running
    /\ \/ /\ CanDelete(playlists, name)
          /\ playlists' = DictDel(playlists, name)
          /\ \E w \in WriteOutcomes :
                /\ Persist(playlists', w)
                /\ last' = Call("delete", name, None, Returned(w, "True"), w)
       \/ /\ ~CanDelete(playlists, name)
          /\ last' = Call("delete", name, None, "False", "none")
          /\ UNCHANGED storeVars
    /\ UNCHANGED engineVars
    /\ UNCHANGED ctrlVars

add_song_to_playlist(name, path) ==
    /\ running
    /\ \/ /\ ShouldAppend(playlists, name, path)
          /\ playlists' = DictSet(playlists, name,
                                  Append(DictGet(playlists, name), path))
          /\ \E w \in WriteOutcomes :
                /\ Persist(playlists', w)
                /\ last' = Call("add", name, path, None, w)
       \/ /\ ~ShouldAppend(playlists, name, path)
          /\ last' = Call("add", name, path, None, "none")
          /\ UNCHANGED storeVars
    /\ UNCHANGED engineVars
    /\ UNCHANGED ctrlVars

remove_song_from_playlist(name, path) ==
    /\ running
    /\ \/ /\ ShouldRemove(playlists, name, path)
          /\ playlists' = DictSet(playlists, name,
                                  ListRemove(DictGet(playlists, name), path))
          /\ \E w \in WriteOutcomes :
                /\ Persist(playlists', w)
                /\ last' = Call("remove", name, path, None, w)
       \/ /\ ~ShouldRemove(playlists, name, path)
          /\ last' = Call("remove", name, path, None, "none")
          /\ UNCHANGED storeVars
    /\ UNCHANGED engineVars
    /\ UNCHANGED ctrlVars

get_playlist_songs(name) == DictGet(playlists, name)

get_playlist_names == [i \in DOMAIN playlists |-> playlists[i].name]

\* A new process: PlaylistManager.__init__ reads the document once
Construct ==
    /\ ~running
    /\ running' = TRUE
    /\ playlists' = load_playlists(file)
    /\ last' = Call("construct", None, None, None, "none")
    /\ UNCHANGED <<file, faults>>
    \* AudioPlayer.__init__ of the new process
    /\ current_song' = None
    /\ is_playing' = FALSE
    /\ is_paused' = FALSE
    /\ position' = 0
    /\ duration' = 0
    /\ mixer' = MixerInit
    /\ UNCHANGED ctrlVars

\* The window is closed: nothing is written
closeEvent ==
    /\ running
    /\ running' = FALSE
    /\ last' = Call("close", None, None, None, "none")
    /\ UNCHANGED <<file, playlists, faults>>
    /\ UNCHANGED engineVars
    /\ UNCHANGED ctrlVars

----------------------------------------------------------------------------
(* pygame.mixer.music, as far as the engine uses it.  busy: a stream was   *)
(* started and has neither ended nor been halted.  paused: the mixer's     *)
(* pause switch; pause() sets it, unpause() and play() clear it.  offset:  *)
(* 0 while the running stream is at its start (and when none runs), 1 once *)
(* it has moved on.  volume: in units of 1 / VolumeSteps.                  *)

\* music.load: the new stream is opened first; only when that succeeded is the
\* old one freed (which halts it).  A failed load raises and changes nothing.
mixer_load(m, path) == [m EXCEPT !.music = path, !.busy = FALSE, !.offset = 0]

\* music.play on a loaded stream: it starts at the start
mixer_play(m) == [m EXCEPT !.busy = TRUE, !.paused = FALSE, !.offset = 0]

\* music.unpause: resumes a paused stream; nothing to resume when none plays
mixer_unpause(m) == [m EXCEPT !.paused = FALSE]

\* music.pause
mixer_pause(m) == [m EXCEPT !.paused = TRUE]

\* music.stop
mixer_stop(m) == [m EXCEPT !.busy = FALSE, !.offset = 0]

\* the volume is passed on as it comes
mixer_set_volume_Unclamped(m, v) == [m EXCEPT !.volume = v]

\* music.set_volume: a negative volume is ignored, one above 1.0 is set to 1.0
mixer_set_volume(m, v) ==
    IF v < 0 THEN m
    ELSE [m EXCEPT !.volume = IF v > VolumeSteps THEN VolumeSteps ELSE v]

\* music.get_busy
get_busy(m) == m.busy /\ ~m.paused

----------------------------------------------------------------------------
(* AudioPlayer *)

\* seconds reported by mutagen for a file; 0 when it cannot read the file
MaxDuration == 2
Durations == 0..MaxDuration

\* The engine's logical state, read off its fields.  With a track loaded and
\* both flags down the code does not tell Loaded from Stopped.
LogicalState ==
    IF is_playing THEN "Playing"
    ELSE IF is_paused THEN "Paused"
    ELSE IF current_song = None THEN "Empty"
    ELSE "Loaded"

is_music_playing == get_busy(mixer) /\ is_playing

\* lines 43-46: the assignments of a load that succeeded
LoadedFields(path, d) ==
    /\ current_song' = path
    /\ position' = 0
    /\ duration' = d
    /\ UNCHANGED <<is_playing, is_paused>>

\* the handler drops the track that was loaded
LoadFailedFields_Clears ==
    /\ current_song' = None
    /\ UNCHANGED <<position, duration, is_playing, is_paused>>

\* lines 47-49: pygame.error is caught
LoadFailedFields == UNCHANGED <<current_song, position, duration, is_playing, is_paused>>

load_song(path) ==
    /\ running
    /\ \/ /\ \E d \in Durations : LoadedFields(path, d)
          /\ mixer' = mixer_load(mixer, path)
          /\ last' = Call("load_song", None, path, "True", "none")
       \/ /\ LoadFailedFields
          /\ UNCHANGED mixer
          /\ last' = Call("load_song", None, path, "False", "none")
    /\ UNCHANGED storeVars
    /\ UNCHANGED ctrlVars

\* play restarts the stream whether or not the engine is paused
play_mixer_AlwaysRestarts(paused, m) == mixer_play(m)

\* lines 53-57: what play() asks of the mixer
play_mixer(paused, m) == IF paused THEN mixer_unpause(m) ELSE mixer_play(m)

\* line 57: music.play with nothing loaded raises pygame.error
PlayRaises(paused, m) == ~paused /\ m.music = None

play ==
    /\ running
    /\ \/ /\ ~PlayRaises(is_paused, mixer)
          /\ mixer' = play_mixer(is_paused, mixer)
          /\ is_paused' = FALSE
          /\ is_playing' = TRUE
          /\ last' = Call("play", None, None, None, "none")
       \/ /\ PlayRaises(is_paused, mixer)
          /\ UNCHANGED <<mixer, is_playing, is_paused>>
          /\ last' = Call("play", None, None, "pygame.error", "none")
    /\ UNCHANGED <<current_song, position, duration>>
    /\ UNCHANGED storeVars
    /\ UNCHANGED ctrlVars

\* pause acts in every state
PauseApplies_Always == TRUE

\* line 62
PauseApplies == is_playing

\* pause forgets to take the playing flag down
PauseFlags_KeepsPlaying == is_paused' = TRUE /\ UNCHANGED is_playing

\* lines 64-65
PauseFlags == is_paused' = TRUE /\ is_playing' = FALSE

pause ==
    /\ running
    /\ \/ /\ PauseApplies
          /\ mixer' = mixer_pause(mixer)
          /\ PauseFlags
       \/ /\ ~PauseApplies
          /\ UNCHANGED <<mixer, is_playing, is_paused>>
    /\ last' = Call("pause", None, None, None, "none")
    /\ UNCHANGED <<current_song, position, duration>>
    /\ UNCHANGED storeVars
    /\ UNCHANGED ctrlVars

\* stop forgets to take the pause flag down
StopFlags_KeepsPaused == is_playing' = FALSE /\ UNCHANGED is_paused

\* lines 70-71
StopFlags == is_playing' = FALSE /\ is_paused' = FALSE

\* lines 69-72
StopFields ==
    /\ mixer' = mixer_stop(mixer)
    /\ StopFlags
    /\ position' = 0
    /\ UNCHANGED <<current_song, duration>>

stop ==
    /\ running
    /\ StopFields
    /\ last' = Call("stop", None, None, None, "none")
    /\ UNCHANGED storeVars
    /\ UNCHANGED ctrlVars

\* The mixer's own thread reaches the end of the stream
TrackEnds ==
    /\ running
    /\ mixer.busy /\ ~mixer.paused
    /\ mixer' = [mixer EXCEPT !.busy = FALSE, !.offset = 0]
    /\ last' = Call("track_ends", None, None, None, "none")
    /\ UNCHANGED <<current_song, is_playing, is_paused, position, duration>>
    /\ UNCHANGED storeVars
    /\ UNCHANGED ctrlVars

\* The mixer's own thread moves on in the stream
StreamAdvances ==
    /\ running
    /\ mixer.busy /\ ~mixer.paused /\ mixer.offset = 0
    /\ mixer' = [mixer EXCEPT !.offset = 1]
    /\ last' = Call("stream_advances", None, None, None, "none")
    /\ UNCHANGED <<current_song, is_playing, is_paused, position, duration>>
    /\ UNCHANGED storeVars
    /\ UNCHANGED ctrlVars

\* requests a caller can make of set_volume, below 0.0 and above 1.0 included
VolumeRequests == (0 - 1)..(VolumeSteps + 1)

\* lines 74-76
set_volume(v) ==
    /\ running
    /\ mixer' = mixer_set_volume(mixer, v)
    /\ last' = Call("set_volume", None, None, None, "none")
    /\ UNCHANGED <<current_song, is_playing, is_paused, position, duration>>
    /\ UNCHANGED storeVars
    /\ UNCHANGED ctrlVars

\* lines 576-580: the slider's value, 0..100, comes in as value / 100.0
on_volume_changed(value) ==
    /\ running
    /\ mixer' = mixer_set_volume(mixer, value)
    /\ last' = Call("on_volume_changed", None, None, None, "none")
    /\ UNCHANGED <<current_song, is_playing, is_paused, position, duration>>
    /\ UNCHANGED storeVars
    /\ UNCHANGED ctrlVars

----------------------------------------------------------------------------
(* MusicPlayerWindow: the handlers of the window.  A handler runs to its   *)
(* end on the event thread before the next one starts.  What the file      *)
(* system and the decoder answer is an input of the handler.               *)

\* line 445
update_songs_list == current_songs' = DictGet(playlists', current_playlist')

\* current_songs.index(path), counted from 0
ListIndex(s, x) ==
    (CHOOSE i \in DOMAIN s : s[i] = x /\ \A j \in 1..(i - 1) : s[j] # x) - 1

\* the cursor stops at the last index
NextIndex_NoWrap(i, n) == IF i + 1 < n THEN i + 1 ELSE n - 1

\* line 573
NextIndex(i, n) == (i + 1) % n

\* line 567
PreviousIndex(i, n) == (i - 1) % n

\* line 512
CursorInRange(idx, songs) == songs # <<>> /\ 0 <= idx /\ idx < Len(songs)

\* play() is called whatever load_song returned
PlaysAfterLoad_Always(loaded) == TRUE

\* lines 516-517: play() only after a load that succeeded
PlaysAfterLoad(loaded) == loaded

PlayOutcomes == {"played", "load_failed", "not_found", "noop"}

\* lines 516-517: load_song(path), then play() when it returned True
LoadAndPlay(path, loaded) ==
    LET loadedMixer == IF loaded THEN mixer_load(mixer, path) ELSE mixer IN
    /\ IF loaded
       THEN /\ current_song' = path
            /\ position' = 0
            /\ \E d \in Durations : duration' = d
       ELSE UNCHANGED <<current_song, position, duration>>
    /\ IF PlaysAfterLoad(loaded)
       THEN /\ mixer' = play_mixer(is_paused, loadedMixer)
            /\ is_paused' = FALSE
            /\ is_playing' = TRUE
       ELSE /\ mixer' = loadedMixer
            /\ UNCHANGED <<is_playing, is_paused>>

\* lines 510-530, at cursor idx of the list songs; ret is what came of it:
\*   noop         the cursor is not an index of the list
\*   not_found    os.path.exists said no: a message box
\*   load_failed  load_song returned False: a message box
\*   played       loaded and play() called
PlayCurrentSong(idx, songs, ret) ==
    \/ /\ ~CursorInRange(idx, songs)
       /\ ret = "noop"
       /\ UNCHANGED engineVars
    \/ /\ CursorInRange(idx, songs)
       /\ ret = "not_found"
       /\ UNCHANGED engineVars
    \/ /\ CursorInRange(idx, songs)
       /\ ret = "load_failed"
       /\ LoadAndPlay(songs[idx + 1], FALSE)
    \/ /\ CursorInRange(idx, songs)
       /\ ret = "played"
       /\ LoadAndPlay(songs[idx + 1], TRUE)

play_current_song ==
    /\ running
    /\ \E ret \in PlayOutcomes :
          /\ PlayCurrentSong(current_song_index, current_songs, ret)
          /\ last' = Call("play_current_song", None, None, ret, "none")
    /\ UNCHANGED storeVars
    /\ UNCHANGED ctrlVars

\* lines 455-458: an item of the playlist list is clicked
on_playlist_selected(name) ==
    /\ running
    /\ Has(playlists, name)
    /\ current_playlist' = name
    /\ UNCHANGED playlists
    /\ update_songs_list
    /\ last' = Call("on_playlist_selected", name, None, None, "none")
    /\ UNCHANGED current_song_index
    /\ UNCHANGED <<file, running, faults>>
    /\ UNCHANGED engineVars

\* lines 460-464: an item of the songs list is double-clicked
on_song_double_clicked(path) ==
    /\ running
    /\ InList(current_songs, path)
    /\ current_song_index' = ListIndex(current_songs, path)
    /\ \E ret \in PlayOutcomes :
          /\ PlayCurrentSong(current_song_index', current_songs, ret)
          /\ last' = Call("on_song_double_clicked", None, path, ret, "none")
    /\ UNCHANGED <<current_playlist, current_songs>>
    /\ UNCHANGED storeVars

\* lines 466-473: a name was entered in the dialog
create_new_playlist(name) ==
    /\ running
    /\ \/ /\ ~Has(playlists, name)
          /\ playlists' = DictSet(playlists, name, <<>>)
          /\ \E w \in WriteOutcomes :
                /\ Persist(playlists', w)
                /\ last' = Call("create_new_playlist", name, None,
                                Returned(w, "True"), w)
       \/ /\ Has(playlists, name)
          /\ last' = Call("create_new_playlist", name, None, "False", "none")
          /\ UNCHANGED storeVars
    /\ UNCHANGED current_playlist
    /\ update_songs_list
    /\ UNCHANGED current_song_index
    /\ UNCHANGED engineVars

\* lines 475-488, the question answered with Yes
delete_current_playlist ==
    /\ running
    /\ \/ /\ current_playlist = "Default"
          /\ last' = Call("delete_current_playlist", current_playlist, None,
                          "refused", "none")
          /\ UNCHANGED storeVars
          /\ UNCHANGED ctrlVars
       \/ /\ current_playlist # "Default"
          /\ \/ /\ CanDelete(playlists, current_playlist)
                /\ playlists' = DictDel(playlists, current_playlist)
                /\ \E w \in WriteOutcomes :
                      /\ Persist(playlists', w)
                      /\ last' = Call("delete_current_playlist", current_playlist,
                                      None, Returned(w, "True"), w)
             \/ /\ ~CanDelete(playlists, current_playlist)
                /\ last' = Call("delete_current_playlist", current_playlist,
                                None, "False", "none")
                /\ UNCHANGED storeVars
          /\ current_playlist' = "Default"
          /\ update_songs_list
          /\ UNCHANGED current_song_index
    /\ UNCHANGED engineVars

\* add_song_to_playlist for each path of the list, without the writes
RECURSIVE AddAll(_, _, _)
AddAll(pl, name, paths) ==
    IF paths = <<>> THEN pl
    ELSE AddAll(IF ShouldAppend(pl, name, Head(paths))
                THEN DictSet(pl, name, Append(DictGet(pl, name), Head(paths)))
                ELSE pl,
                name, Tail(paths))

\* the lists of files the dialog can return: none, one, several
FileChoices == {s \in SeqsUpTo(Songs, Cardinality(Songs)) :
                   \A i, j \in DOMAIN s : s[i] = s[j] => i = j}

\* lines 490-500.  Each append is followed by its own write; the writes of one
\* handler meet the same fate, and the last one decides the document.
add_songs_to_playlist(paths) ==
    /\ running
    /\ playlists' = AddAll(playlists, current_playlist, paths)
    /\ \/ /\ playlists' # playlists
          /\ \E w \in WriteOutcomes :
                /\ Persist(playlists', w)
                /\ last' = Call("add_songs_to_playlist", current_playlist, None,
                                None, w)
       \/ /\ playlists' = playlists
          /\ last' = Call("add_songs_to_playlist", current_playlist, None,
                          None, "none")
          /\ UNCHANGED <<file, running, faults>>
    /\ UNCHANGED current_playlist
    /\ update_songs_list
    /\ UNCHANGED current_song_index
    /\ UNCHANGED engineVars

\* lines 502-508: the selected item of the songs list is removed
remove_song(path) ==
    /\ running
    /\ InList(current_songs, path)
    /\ \/ /\ ShouldRemove(playlists, current_playlist, path)
          /\ playlists' = DictSet(playlists, current_playlist,
                                  ListRemove(DictGet(playlists, current_playlist), path))
          /\ \E w \in WriteOutcomes :
                /\ Persist(playlists', w)
                /\ last' = Call("remove_song", current_playlist, path, None, w)
       \/ /\ ~ShouldRemove(playlists, current_playlist, path)
          /\ last' = Call("remove_song", current_playlist, path, None, "none")
          /\ UNCHANGED storeVars
    /\ UNCHANGED current_playlist
    /\ update_songs_list
    /\ UNCHANGED current_song_index
    /\ UNCHANGED engineVars

\* pause is never chosen
TogglePauses_Never == FALSE

\* line 544
TogglePauses == is_playing

\* lines 542-555
toggle_play_pause ==
    /\ running
    /\ \/ /\ TogglePauses
          /\ mixer' = mixer_pause(mixer)
          /\ PauseFlags
          /\ UNCHANGED <<current_song, position, duration>>
          /\ UNCHANGED current_song_index
          /\ last' = Call("toggle_play_pause", None, None, "pause", "none")
       \/ /\ ~TogglePauses /\ current_song # None
          /\ mixer' = play_mixer(is_paused, mixer)
          /\ is_paused' = FALSE
          /\ is_playing' = TRUE
          /\ UNCHANGED <<current_song, position, duration>>
          /\ UNCHANGED current_song_index
          /\ last' = Call("toggle_play_pause", None, None, "play", "none")
       \/ /\ ~TogglePauses /\ current_song = None /\ current_songs # <<>>
          /\ current_song_index' = 0
          /\ \E ret \in PlayOutcomes :
                /\ PlayCurrentSong(0, current_songs, ret)
                /\ last' = Call("toggle_play_pause", None, None, ret, "none")
       \/ /\ ~TogglePauses /\ current_song = None /\ current_songs = <<>>
          /\ UNCHANGED engineVars
          /\ UNCHANGED current_song_index
          /\ last' = Call("toggle_play_pause", None, None, "noop", "none")
    /\ UNCHANGED <<current_playlist, current_songs>>
    /\ UNCHANGED storeVars

\* lines 557-562
stop_playback ==
    /\ running
    /\ StopFields
    /\ last' = Call("stop_playback", None, None, None, "none")
    /\ UNCHANGED storeVars
    /\ UNCHANGED ctrlVars

\* lines 566-568 and 572-574: the cursor moves to idx and that song is played
MoveAndPlay(op, idx) ==
    \/ /\ current_songs # <<>>
       /\ current_song_index' = idx
       /\ \E ret \in PlayOutcomes :
             /\ PlayCurrentSong(idx, current_songs, ret)
             /\ last' = Call(op, None, None, ret, "none")
    \/ /\ current_songs = <<>>
       /\ UNCHANGED engineVars
       /\ UNCHANGED current_song_index
       /\ last' = Call(op, None, None, "noop", "none")

previous_song ==
    /\ running
    /\ MoveAndPlay("previous_song",
                   IF current_songs = <<>> THEN 0
                   ELSE PreviousIndex(current_song_index, Len(current_songs)))
    /\ UNCHANGED <<current_playlist, current_songs>>
    /\ UNCHANGED storeVars

next_song ==
    /\ running
    /\ MoveAndPlay("next_song",
                   IF current_songs = <<>> THEN 0
                   ELSE NextIndex(current_song_index, Len(current_songs)))
    /\ UNCHANGED <<current_playlist, current_songs>>
    /\ UNCHANGED storeVars

\* the cursor moves on whenever the mixer is silent
TrackFinished_WheneverSilent == ~is_music_playing

\* line 599, reached when line 595 found the mixer silent
TrackFinished == is_playing /\ ~is_music_playing

\* lines 593-601: the timer's callback
update_progress ==
    /\ running
    /\ \/ /\ TrackFinished
          /\ MoveAndPlay("update_progress",
                         IF current_songs = <<>> THEN 0
                         ELSE NextIndex(current_song_index, Len(current_songs)))
       \/ /\ ~TrackFinished
          /\ UNCHANGED engineVars
          /\ UNCHANGED current_song_index
          /\ last' = Call("update_progress", None, None, "idle", "none")
    /\ UNCHANGED <<current_playlist, current_songs>>
    /\ UNCHANGED storeVars

----------------------------------------------------------------------------
(* Initial states *)

DocMembers == PlaylistNames \X SeqsUpTo(Songs, MaxDocSongs)

\* The document the first process finds: absent, unparseable, or an object of
\* at most as many members as there are names (so a name may occur twice).
InitialDocs ==
    {Absent, Corrupt}
        \cup {Document(m) : m \in SeqsUpTo(DocMembers, Cardinality(PlaylistNames))}

InitEngine ==
    /\ current_song = None
    /\ is_playing = FALSE
    /\ is_paused = FALSE
    /\ position = 0
    /\ duration = 0
    /\ mixer = MixerInit

InitStore ==
    /\ file \in InitialDocs
    /\ playlists = load_playlists(file)
    /\ running = TRUE
    /\ faults = 0
    /\ last = Call("construct", None, None, None, "none")

\* lines 179-181 and 189: the window starts on "Default" with its songs
InitCtrl ==
    /\ current_playlist = "Default"
    /\ current_song_index = 0
    /\ current_songs = get_playlist_songs("Default")

\* lines 179-181: the store on its own, no playlist shown yet
InitNoWindow ==
    /\ current_playlist = "Default"
    /\ current_song_index = 0
    /\ current_songs = <<>>

Init == InitStore /\ InitEngine /\ InitNoWindow

NextStore ==
    \/ \E name \in PlaylistNames : create_playlist(name)
    \/ \E name \in PlaylistNames : delete_playlist(name)
    \/ \E name \in PlaylistNames, path \in Songs : add_song_to_playlist(name, path)
    \/ \E name \in PlaylistNames, path \in Songs : remove_song_from_playlist(name, path)
    \/ Construct
    \/ closeEvent

SpecStore == Init /\ [][NextStore]_vars

\* The engine alone, in a process that found no document
InitFresh ==
    /\ file = Absent
    /\ playlists = load_playlists(file)
    /\ running = TRUE
    /\ faults = 0
    /\ last = Call("construct", None, None, None, "none")
    /\ InitEngine
    /\ InitCtrl

NextEngine ==
    \/ \E path \in Songs : load_song(path)
    \/ play
    \/ pause
    \/ stop
    \/ TrackEnds
    \/ StreamAdvances
    \/ \E v \in VolumeRequests : set_volume(v)
    \/ \E value \in 0..VolumeSteps : on_volume_changed(value)

SpecEngine == InitFresh /\ [][NextEngine]_vars

\* The window with its store and its engine.  How far the stream has moved
\* on and the volume are read by no handler: StreamAdvances and the volume
\* slider are left to SpecEngine.
NextApp ==
    \/ \E name \in PlaylistNames : on_playlist_selected(name)
    \/ \E path \in Songs : on_song_double_clicked(path)
    \/ \E name \in PlaylistNames : create_new_playlist(name)
    \/ delete_current_playlist
    \/ \E paths \in FileChoices : add_songs_to_playlist(paths)
    \/ \E path \in Songs : remove_song(path)
    \/ play_current_song
    \/ toggle_play_pause
    \/ stop_playback
    \/ previous_song
    \/ next_song
    \/ update_progress
    \/ TrackEnds

\* The window over a store whose writes succeed: what a failing write does to
\* the document is the matter of SpecStore, and no handler reads the file.
InitApp ==
    /\ file = Absent
    /\ playlists = load_playlists(file)
    /\ running = TRUE
    /\ faults = MaxFaults
    /\ last = Call("construct", None, None, None, "none")
    /\ InitEngine
    /\ InitCtrl

SpecApp == InitApp /\ [][NextApp]_vars

\* The window's playlist handlers over whatever document the program finds
\* when it starts, with the engine at rest.
InitWindowStore ==
    /\ file \in InitialDocs
    /\ playlists = load_playlists(file)
    /\ running = TRUE
    /\ faults = MaxFaults
    /\ last = Call("construct", None, None, None, "none")
    /\ InitEngine
    /\ InitCtrl

NextWindowStore ==
    \/ \E name \in PlaylistNames : on_playlist_selected(name)
    \/ \E name \in PlaylistNames : create_new_playlist(name)
    \/ delete_current_playlist
    \/ \E paths \in FileChoices : add_songs_to_playlist(paths)
    \/ \E path \in Songs : remove_song(path)

SpecWindowStore == InitWindowStore /\ [][NextWindowStore]_vars

\* The user leaves the window alone once a track has come to its end: from
\* then on only the timer acts.
UserActs == ~TrackFinished /\ NextApp

NextPoll ==
    \/ UserActs
    \/ update_progress

\* lines 184-186: the timer calls update_progress every 100 ms for as long as
\* the window lives
SpecPoll == InitApp /\ [][NextPoll]_vars /\ WF_vars(update_progress)

----------------------------------------------------------------------------
(* Properties of the playlist store (SpecStore) *)

Mutating == {"create", "delete", "add", "remove"}

\* the call of this step is one of the store's mutating methods and returned
ReturnedFrom(ops) == last'.op \in ops /\ last'.wr # "crash"

MemberNames(f) == {f.members[i][1] : i \in DOMAIN f.members}

Count(s, x) == Cardinality({i \in DOMAIN s : s[i] = x})

NoDuplicates(pl) ==
    \A i \in DOMAIN pl : \A j, k \in DOMAIN pl[i].songs :
        pl[i].songs[j] = pl[i].songs[k] => j = k

\* C1: in every state of a live store "Default" is a key of the in-memory
\* mapping, and of the persisted document when there is one.
C1_DefaultAlwaysPresent ==
    running =>
        /\ Has(playlists, "Default")
        /\ file.kind = "doc" => "Default" \in MemberNames(file)

\* C2: a delete that returns: of an existing name other than "Default" returns
\* True and the name is gone from get_playlist_names; of "Default" returns
\* False and "Default" stays; of a name that is not there returns False and
\* leaves the mapping and the document as they were.
C2_Delete ==
    [][ReturnedFrom({"delete"}) =>
          LET name == last'.name IN
          /\ (Has(playlists, name) /\ name # "Default") =>
                /\ last'.ret = "True"
                /\ \A i \in DOMAIN get_playlist_names' : get_playlist_names'[i] # name
          /\ name = "Default" =>
                /\ last'.ret = "False"
                /\ Has(playlists, "Default") => Has(playlists', "Default")
          /\ ~Has(playlists, name) =>
                /\ last'.ret = "False"
                /\ playlists' = playlists
                /\ file' = file
       ]_vars

C2_Witness ==
    /\ last.op = "delete" /\ last.ret = "True"
    /\ ~Has(playlists, last.name)
    /\ Has(playlists, "Default")

\* C3: the mutating calls keep duplicate-free lists duplicate-free; on such a
\* store, after add(L, p) on an existing L the path p is in L exactly once,
\* and an add of a path that is already in L changes neither the mapping nor
\* the document.
C3_NoDuplicates ==
    [][(last'.op \in Mutating /\ NoDuplicates(playlists)) =>
          /\ NoDuplicates(playlists')
          /\ (last'.op = "add" /\ Has(playlists, last'.name)) =>
                /\ Count(DictGet(playlists', last'.name), last'.path) = 1
                /\ InList(DictGet(playlists, last'.name), last'.path) =>
                      (playlists' = playlists /\ file' = file)
       ]_vars

C3_Witness ==
    /\ last.op = "add" /\ last.wr = "none"
    /\ NoDuplicates(playlists)
    /\ Count(DictGet(playlists, last.name), last.path) = 1
    /\ Len(DictGet(playlists, last.name)) = Cardinality(Songs)

\* C4: after a mutating call returned, a fresh store built from the document
\* has the names and the lists of this one, in the same order.
C4_DurableOnReturn ==
    (running /\ last.op \in Mutating) => load_playlists(file) = playlists

\* C5: a crash during the write of a store whose document held "Default"
\* leaves a document from which a new store reads the snapshot of before the
\* call or the one of after it.
C5_NoPartialWrite ==
    [][(last'.wr = "crash" /\ file.kind = "doc" /\ "Default" \in MemberNames(file)) =>
          load_playlists(file') \in {load_playlists(file), playlists'}
       ]_vars

\* C6: a create that returns: of an existing name returns False, writes
\* nothing and leaves the mapping as it was; of a new name returns True, the
\* name is there with an empty list, and the document holds the whole mapping.
C6_Create ==
    [][ReturnedFrom({"create"}) =>
          LET name == last'.name IN
          /\ Has(playlists, name) =>
                /\ last'.ret = "False"
                /\ last'.wr = "none"
                /\ playlists' = playlists
                /\ file' = file
          /\ ~Has(playlists, name) =>
                /\ last'.ret = "True"
                /\ Has(playlists', name)
                /\ DictGet(playlists', name) = <<>>
                /\ file' = Document(JsonDump(playlists'))
       ]_vars

\* C7: create and delete do not return True when the write failed.
C7_WriteFailureSurfaced ==
    (last.op \in {"create", "delete"} /\ last.wr \in {"denied", "partial"})
        => last.ret # "True"

WellFormed(pl) ==
    /\ \A i, j \in DOMAIN pl : pl[i].name = pl[j].name => i = j
    /\ \A i \in DOMAIN pl : \A k \in DOMAIN pl[i].songs : pl[i].songs[k] \in Songs

----------------------------------------------------------------------------
(* Properties of the playback engine (SpecEngine) *)

\* what update_progress reads of the engine
PollView == [state |-> LogicalState, sounding |-> is_music_playing]

\* C9: a load that fails returns False and changes no field of the engine,
\* nor the mixer, so that a poll sees what it saw before.
C9_FailedLoad ==
    [][(last'.op = "load_song" /\ last'.ret # "True") =>
          /\ last'.ret = "False"
          /\ UNCHANGED <<current_song, position, duration, is_playing, is_paused>>
          /\ UNCHANGED mixer
          /\ PollView' = PollView
       ]_vars

C9_Witness ==
    /\ last.op = "load_song" /\ last.ret = "False"
    /\ LogicalState = "Playing"
    /\ current_song # None /\ current_song # last.path

\* C10: after a load that succeeded the loaded reference is the path, the
\* position is 0 and the logical state is Loaded.
C10_SuccessfulLoad ==
    (last.op = "load_song" /\ last.ret = "True") =>
        /\ current_song = last.path
        /\ position = 0
        /\ LogicalState = "Loaded"

\* the fields of the session that play, pause and stop leave to load_song
SessionTrack == <<current_song, position, duration>>

\* C11: play resumes a paused stream where it was paused and the state is
\* Playing; from Loaded or Stopped it starts the loaded track at its start and
\* the state is Playing; with nothing loaded the call signals an error and the
\* state stays Empty.
C11_Play ==
    [][last'.op = "play" =>
          /\ LogicalState = "Paused" =>
                /\ last'.ret = None
                /\ LogicalState' = "Playing"
                /\ ~mixer'.paused
                /\ mixer'.busy = mixer.busy
                /\ mixer'.offset = mixer.offset
                /\ mixer'.music = mixer.music
          /\ LogicalState = "Loaded" =>
                /\ last'.ret = None
                /\ LogicalState' = "Playing"
                /\ mixer'.music = current_song
                /\ mixer'.busy /\ ~mixer'.paused
                /\ mixer'.offset = 0
                /\ position' = 0
          /\ LogicalState = "Empty" =>
                /\ last'.ret = "pygame.error"
                /\ LogicalState' = "Empty"
                /\ UNCHANGED mixer
          /\ UNCHANGED SessionTrack
       ]_vars

\* a stream paused after it had moved on is playing again, from where it was
C11_Witness ==
    /\ last.op = "play" /\ last.ret = None
    /\ LogicalState = "Playing"
    /\ mixer.busy /\ ~mixer.paused /\ mixer.offset = 1

\* C12: pause takes Playing to Paused with the stream halted; from Empty,
\* Loaded, Stopped and Paused it changes nothing.
C12_Pause ==
    [][last'.op = "pause" =>
          /\ LogicalState = "Playing" =>
                /\ LogicalState' = "Paused"
                /\ mixer'.paused /\ ~get_busy(mixer')
                /\ mixer'.offset = mixer.offset
                /\ mixer'.music = mixer.music
          /\ LogicalState # "Playing" =>
                /\ LogicalState' = LogicalState
                /\ UNCHANGED mixer
          /\ UNCHANGED SessionTrack
       ]_vars

\* pause was called while the stream was playing
C12_Witness ==
    /\ last.op = "pause"
    /\ LogicalState = "Paused"
    /\ mixer.busy /\ mixer.paused

\* C13: with a track loaded, stop halts the stream, puts the position to 0 and
\* leaves the engine Stopped (both flags down) with the same track loaded; a
\* play that follows starts that track at its start.
C13_Stop ==
    [][/\ (last'.op = "stop" /\ current_song # None) =>
             /\ LogicalState' = "Loaded"
             /\ ~is_playing' /\ ~is_paused'
             /\ ~mixer'.busy
             /\ position' = 0
             /\ current_song' = current_song
       /\ (last.op = "stop" /\ last'.op = "play" /\ current_song # None) =>
             /\ LogicalState' = "Playing"
             /\ mixer'.music = current_song
             /\ mixer'.busy /\ ~mixer'.paused
             /\ mixer'.offset = 0
             /\ position' = 0
             /\ current_song' = current_song
       ]_vars

\* stop was called on a paused stream
C13_Witness ==
    /\ last.op = "stop"
    /\ current_song # None
    /\ mixer.paused /\ ~mixer.busy
    /\ LogicalState = "Loaded"

----------------------------------------------------------------------------
(* Properties of the window (SpecApp) *)

\* the cursor after k calls of next on a list of n songs, from cursor i
RECURSIVE CursorAfter(_, _, _)
CursorAfter(i, k, n) == IF k = 0 THEN i ELSE (CursorAfter(i, k - 1, n) + 1) % n

\* C14: on a list of N >= 1 songs next moves the cursor from i to (i+1) mod N
\* and previous to (i-1) mod N, N calls of next visit every index, and on an
\* empty list neither changes the cursor or the engine.
C14_Circular ==
    [][last'.op \in {"next_song", "previous_song"} =>
          LET i == current_song_index
              n == Len(current_songs)
          IN  /\ (n >= 1 /\ last'.op = "next_song") =>
                    /\ current_song_index' = (i + 1) % n
                    /\ i = n - 1 => current_song_index' = 0
                    /\ {CursorAfter(i, k, n) : k \in 1..n} = 0..(n - 1)
                    /\ CursorAfter(i, 1, n) = current_song_index'
              /\ (n >= 1 /\ last'.op = "previous_song") =>
                    /\ current_song_index' = (i - 1) % n
                    /\ i = 0 => current_song_index' = n - 1
              /\ n = 0 =>
                    /\ UNCHANGED current_song_index
                    /\ UNCHANGED engineVars
       ]_vars

\* next wrapped from the last song of two to the first
C14_Witness ==
    /\ last.op = "next_song"
    /\ Len(current_songs) = 2
    /\ current_song_index = 0

\* C15: whenever the list shown is not empty the cursor is an index of it.
C15_CursorInRange ==
    current_songs # <<>> =>
        (0 <= current_song_index /\ current_song_index < Len(current_songs))

\* C16: toggle pauses a playing engine; otherwise it plays the loaded track;
\* otherwise, with songs in the list, it puts the cursor to 0 and plays that
\* song.  A toggle after a toggle that played leaves the engine Paused.
C16_Toggle ==
    [][last'.op = "toggle_play_pause" =>
          /\ LogicalState = "Playing" =>
                /\ LogicalState' = "Paused"
                /\ mixer'.paused
                /\ UNCHANGED <<current_song, current_song_index>>
          /\ LogicalState = "Paused" =>
                /\ LogicalState' = "Playing"
                /\ ~mixer'.paused /\ mixer'.busy = mixer.busy
                /\ UNCHANGED <<current_song, current_song_index>>
          /\ LogicalState = "Loaded" =>
                /\ LogicalState' = "Playing"
                /\ mixer'.music = current_song /\ get_busy(mixer')
                /\ UNCHANGED <<current_song, current_song_index>>
          /\ (LogicalState = "Empty" /\ current_songs # <<>>) =>
                /\ current_song_index' = 0
                /\ last'.ret \in {"played", "load_failed", "not_found"}
                /\ last'.ret = "played" =>
                      /\ current_song' = current_songs[1]
                      /\ LogicalState' = "Playing"
                      /\ get_busy(mixer')
          /\ (LogicalState = "Empty" /\ current_songs = <<>>) =>
                /\ UNCHANGED current_song_index
                /\ UNCHANGED engineVars
          /\ (last.op = "toggle_play_pause" /\ last.ret \in {"play", "played"}) =>
                LogicalState' = "Paused"
       ]_vars

\* the second of two toggles has paused the stream the first one started
C16_Witness ==
    /\ last.op = "toggle_play_pause" /\ last.ret = "pause"
    /\ LogicalState = "Paused"
    /\ mixer.busy /\ mixer.paused /\ mixer.offset = 0

\* C17: a poll that finds the engine Playing and the mixer silent moves the
\* cursor from i to (i+1) mod N; any other poll changes neither the cursor nor
\* the engine.
C17_AutoAdvance ==
    [][last'.op = "update_progress" =>
          IF LogicalState = "Playing" /\ ~get_busy(mixer)
          THEN /\ current_songs # <<>> =>
                     current_song_index'
                        = (current_song_index + 1) % Len(current_songs)
               /\ current_songs = <<>> =>
                     UNCHANGED <<current_song_index, engineVars>>
          ELSE /\ UNCHANGED current_song_index
               /\ UNCHANGED engineVars
       ]_vars

\* the poll after the end of the first of two songs went on to the second
C17_Witness ==
    /\ last.op = "update_progress" /\ last.ret = "played"
    /\ Len(current_songs) = 2
    /\ current_song_index = 1
    /\ current_song = current_songs[2]

\* C18: playing at a cursor that is no index of the list changes nothing in
\* the engine; at an index whose file is missing or does not load, an error is
\* shown, the track loaded and the logical state stay, and the cursor is the
\* one asked for; only a load that succeeds loads the song and makes the
\* engine Playing.
C18_PlayAt ==
    [][last'.op \in {"play_current_song", "on_song_double_clicked"} =>
          LET idx == current_song_index'
              inRange == 0 <= idx /\ idx < Len(current_songs)
          IN  /\ last'.op = "on_song_double_clicked" =>
                    inRange /\ current_songs[idx + 1] = last'.path
              /\ last'.op = "play_current_song" => idx = current_song_index
              /\ ~inRange =>
                    /\ last'.ret = "noop"
                    /\ UNCHANGED engineVars
              /\ inRange => last'.ret \in {"not_found", "load_failed", "played"}
              /\ last'.ret \in {"not_found", "load_failed"} =>
                    /\ current_song' = current_song
                    /\ LogicalState' = LogicalState
                    /\ UNCHANGED mixer
              /\ last'.ret = "played" =>
                    /\ current_song' = current_songs[idx + 1]
                    /\ mixer'.music = current_songs[idx + 1]
                    /\ LogicalState' = "Playing"
       ]_vars

\* the second song was asked for and did not load: the cursor is on it, the
\* engine still plays the first
C18_Witness ==
    /\ last.op = "on_song_double_clicked" /\ last.ret = "load_failed"
    /\ current_song_index = 1
    /\ current_song # None /\ current_song # last.path
    /\ LogicalState = "Playing"

\* C20: after next, previous or a play at an index whose file loaded, the
\* engine is Playing and the mixer sounds the song at the cursor.
C20_NavigationPlays ==
    (/\ last.op \in {"next_song", "previous_song", "play_current_song",
                     "on_song_double_clicked"}
     /\ last.ret = "played") =>
        /\ LogicalState = "Playing"
        /\ current_song = current_songs[current_song_index + 1]
        /\ mixer.music = current_song
        /\ get_busy(mixer)

\* C22: the two flags of the engine are never up together, and a flag is up
\* only while a track is loaded.
C22_FlagsConsistent ==
    /\ ~(is_playing /\ is_paused)
    /\ (is_playing \/ is_paused) => current_song # None

\* a song was loaded and played over a paused one: the pause flag that
\* load_song left up has been taken down by play
C22_Witness ==
    /\ last.op = "next_song" /\ last.ret = "played"
    /\ is_playing /\ ~is_paused
    /\ ~mixer.busy
    /\ current_song # None

----------------------------------------------------------------------------
(* Properties of the window over its store (SpecWindowStore) *)

PlaylistHandlers ==
    {"on_playlist_selected", "create_new_playlist", "delete_current_playlist",
     "add_songs_to_playlist", "remove_song"}

\* C23: after a playlist handler of the window has returned, the current
\* playlist is one the store holds, the list shown is the store's list of that
\* playlist, and a deletion of the current playlist has left the window on
\* "Default".
C23_Coherent ==
    (last.op \in PlaylistHandlers /\ running) =>
        /\ Has(playlists, current_playlist)
        /\ current_songs = get_playlist_songs(current_playlist)
        /\ (last.op = "delete_current_playlist" /\ last.ret = "True") =>
              current_playlist = "Default"

----------------------------------------------------------------------------
(* Properties of the timer's poll (SpecPoll) *)

\* a poll that advances cannot move the cursor: (i + 1) % N = i
CursorCannotMove == Len(current_songs) < 2

\* C21: once the poll takes the track for finished (the engine Playing, the
\* mixer silent), the polls that follow reach a state where a poll no longer
\* changes the cursor: the engine is Playing with the mixer sounding, or is no
\* longer Playing, or at least the list leaves the cursor nowhere to go.
C21_AdvanceSettles == TrackFinished ~> (~TrackFinished \/ CursorCannotMove)

====
